---- MODULE Spec2Model ----
(***************************************************************************)
(* Verification model of the wait/retry utilities (src/utils/wait.util.ts) *)
(* and of the authentication fixtures (src/fixtures/auth.fixture.ts,       *)
(* src/fixtures/base.fixtures.ts) of the Playwright automation framework.  *)
(*                                                                         *)
(* and of the page objects (src/pages/login.page.ts, base.page.ts).        *)
(*                                                                         *)
(* Independent state machines share the module; each has its own           *)
(* specification (SpecWait, SpecRetry, SpecFixture, ...) that keeps the    *)
(* variables of the others at their initial values.                        *)
(***************************************************************************)
EXTENDS Integers, Sequences, FiniteSets, TLC

VARIABLES
  \* ---- WaitUtil.waitForCondition -------------------------------------
  wpc,        \* position inside waitForCondition
  clock,      \* Date.now(), in ms
  startTime,  \* const startTime = Date.now()
  timeout,    \* parameter timeout, in ms
  trueFrom,   \* the caller's condition: first instant it yields true
  trueStays,  \* the caller's condition: TRUE iff it stays true once true
  throwFrom,  \* the caller's condition: first instant it throws
  wlog,       \* what waitForCondition has done so far, in order
  werror,     \* the error waitForCondition rejected with
  \* ---- WaitUtil.retryUntilSuccess ------------------------------------
  rpc,        \* position inside retryUntilSuccess
  attempt,    \* loop variable attempt
  maxAttempts,\* parameter maxAttempts
  delayMs,    \* parameter delayMs
  lastError,  \* local lastError
  rlog,       \* what retryUntilSuccess has done so far, in order
  rresult,    \* the value retryUntilSuccess resolved with
  rerror,     \* the error retryUntilSuccess rejected with
  relapsed,   \* time spent sleeping inside retryUntilSuccess, in ms
  \* ---- authentication fixtures ---------------------------------------
  fixture,    \* which fixture function runs
  fpc,        \* position inside the fixture function
  credsValid, \* whether the application accepts the credentials
  url,        \* page.url() (path part)
  contextOpen,\* the browser context made by browser.newContext() is open
  closeCalls, \* number of context.close() calls made by the fixture
  handed,     \* use(page) has been called: the test body has the page
  bodyResult, \* how the test body ended
  setupError, \* the error the fixture function rejected with
  testResult, \* what the test runner records for the test
  flog,       \* the fixture's steps so far, in order
  \* ---- concurrent acquisitions of auth.fixture's fixtures ------------
  acqFixture, \* per acquisition: which fixture function runs
  acqPc,      \* per acquisition: position inside the fixture function
  acqContext, \* per acquisition: the context held (0: none yet)
  contextsOpen,    \* the browser's open contexts
  contextsCreated, \* number of contexts the browser has created so far
  \* ---- WaitUtil.waitForConsoleMessage --------------------------------
  cpc,        \* state of the promise waitForConsoleMessage returned
  subscribed, \* handler is registered on the page's 'console' event
  timerArmed, \* the setTimeout timer is pending
  pageOpen,   \* the page has not been closed
  expectedMessage, \* parameter expectedMessage
  clog,       \* console messages, timer expiry and page close, in order
  resolveCalls,    \* number of calls of resolve()
  rejectCalls,     \* number of calls of reject()
  \* ---- the polling waiters for text and element count ----------------
  waiter,     \* which polling waiter runs
  ppc,        \* position inside the waiter
  pclock,     \* Date.now() - startTime, in ms
  ptimeout,   \* parameter timeout, in ms
  param,      \* parameter initialText / expectedCount / minCount
  valBefore,  \* the page: text or count of the locator before changeAt
  valAfter,   \* the page: text or count of the locator from changeAt on
  changeAt,   \* the page: instant of the change
  plog,       \* the values the waiter has read, with their instants
  perror,     \* the error the waiter rejected with
  \* ---- waitForAnimationsToComplete / waitForElementToBeStable --------
  primitive,  \* which wait runs
  apc,        \* position inside the wait
  fates,      \* the page: how each animation of the element ends, if ever
  settled,    \* the animations whose finished promise has settled
  alog,       \* the wait's steps so far, in order
  \* ---- LoginPage ------------------------------------------------------
  lpClass,    \* which LoginPage class the object is an instance of
  lpc,        \* index of the next step of login(); 0 between method calls
  loginArgs,  \* arguments of the running login() call
  issued,     \* driver actions issued by the last login() call, in order
  usernameValue,   \* the page: value of the username input
  passwordValue,   \* the page: value of the password input
  rememberChecked, \* the page: state of the remember-me checkbox
  lpLog,      \* the method calls made on the page object and how they ended
  \* ---- BasePage.acceptAlert / dismissAlert ----------------------------
  handlers,   \* listeners registered with page.once('dialog', ...), in order
  dialogs,    \* per dialog shown: the accept()/dismiss() calls made on it
  dlgEvents,  \* number of method calls and dialog events so far
  \* ---- WaitUtil.waitForSpinnerToDisappear -----------------------------
  spc,        \* position inside waitForSpinnerToDisappear
  sclock,     \* time since the call, in ms
  sTimeout,   \* parameter timeout, in ms
  hiddenAt,   \* the page: instant from which the spinner is hidden
  sFault,     \* the page: a failure of waitFor other than the timeout
  slog,       \* how spinner.waitFor ended
  \* ---- WaitUtil.waitForMultipleAPICalls -------------------------------
  mpc,        \* state of the promise waitForMultipleAPICalls awaits
  patterns,   \* parameter urlPatterns
  waitState,  \* per pattern: state of its page.waitForResponse promise
  mlog        \* responses and timer expiries, in order

waitVars == <<wpc, clock, startTime, timeout, trueFrom, trueStays, throwFrom,
              wlog, werror>>
retryVars == <<rpc, attempt, maxAttempts, delayMs, lastError, rlog, rresult,
               rerror, relapsed>>
fixtureVars == <<fixture, fpc, credsValid, url, contextOpen, closeCalls,
                 handed, bodyResult, setupError, testResult, flog>>
sessionVars == <<acqFixture, acqPc, acqContext, contextsOpen, contextsCreated>>
consoleVars == <<cpc, subscribed, timerArmed, pageOpen, expectedMessage, clog,
                 resolveCalls, rejectCalls>>
pollVars == <<waiter, ppc, pclock, ptimeout, param, valBefore, valAfter,
              changeAt, plog, perror>>
animVars == <<primitive, apc, fates, settled, alog>>
loginVars == <<lpClass, lpc, loginArgs, issued, usernameValue, passwordValue,
               rememberChecked, lpLog>>
dialogVars == <<handlers, dialogs, dlgEvents>>
spinnerVars == <<spc, sclock, sTimeout, hiddenAt, sFault, slog>>
apiVars == <<mpc, patterns, waitState, mlog>>
pageVars == <<loginVars, dialogVars, spinnerVars, apiVars>>
moreVars == <<sessionVars, consoleVars, pollVars, animVars, pageVars>>
vars == <<waitVars, retryVars, fixtureVars, moreVars>>

Last(s) == s[Len(s)]

(***************************************************************************)
(* WaitUtil.waitForCondition                                               *)
(***************************************************************************)

POLL_INTERVAL == 500

\* Number of grid instants used for timeouts and for the condition's switch
\* instants; the grid step is a fifth of the poll interval.
MaxTick == 12

Granule == POLL_INTERVAL \div 5

Instants == {k * Granule : k \in 0..MaxTick}

\* "not at any instant": the condition never becomes true / never throws.
Never == -1

\* The value of one evaluation of the caller's condition at instant t.
condition(t) ==
  IF throwFrom # Never /\ t >= throwFrom THEN "throw"
  ELSE IF trueFrom # Never /\ t >= trueFrom
          /\ (trueStays \/ t < trueFrom + Granule) THEN "true"
  ELSE "false"

\* while (Date.now() - startTime < timeout)
LoopGuardInclusive(elapsed, limit) == elapsed <= limit

LoopGuard(elapsed, limit) == elapsed < limit

\* if (await condition()) { return; }  -- an exception leaves the function
AfterEvalNegated(r) ==
  CASE r = "throw" -> "threw"
    [] r = "true"  -> "sleep"
    [] OTHER       -> "returned"

AfterEvalSwallow(r) ==
  CASE r = "throw" -> "sleep"
    [] r = "true"  -> "returned"
    [] OTHER       -> "sleep"

\* A loop that goes back to its test without sleeping.
AfterEvalNoSleep(r) ==
  CASE r = "throw" -> "threw"
    [] r = "true"  -> "returned"
    [] OTHER       -> "check"

AfterEval(r) ==
  CASE r = "throw" -> "threw"
    [] r = "true"  -> "returned"
    [] OTHER       -> "sleep"

WaitTerminal == {"returned", "timedout", "threw"}

InitWait ==
  /\ wpc = "check"
  /\ startTime \in {0, 3 * Granule}
  /\ clock = startTime
  /\ timeout \in Instants
  /\ trueFrom \in {startTime + i : i \in Instants} \cup {Never}
  /\ trueStays \in BOOLEAN
  /\ throwFrom \in {startTime + i : i \in Instants} \cup {Never}
  /\ wlog = <<>>
  /\ werror = "none"

\* The loop test; when it fails the function throws the timeout error.
WaitCheck ==
  /\ wpc = "check"
  /\ IF LoopGuard(clock - startTime, timeout)
       THEN /\ wpc' = "eval"
            /\ UNCHANGED <<wlog, werror>>
       ELSE /\ wpc' = "timedout"
            /\ werror' = "timeout"
            /\ wlog' = Append(wlog, "timeoutError")
  /\ UNCHANGED <<clock, startTime, timeout, trueFrom, trueStays, throwFrom>>

\* One evaluation of condition(), taken as instantaneous.
WaitEval ==
  /\ wpc = "eval"
  /\ LET r == condition(clock) IN
       /\ wpc' = AfterEval(r)
       /\ wlog' = Append(wlog, r)
       /\ werror' = IF AfterEval(r) = "threw" THEN "conditionError" ELSE werror
  /\ UNCHANGED <<clock, startTime, timeout, trueFrom, trueStays, throwFrom>>

\* await this.sleep(this.POLL_INTERVAL): the timer fires after the interval.
WaitSleep ==
  /\ wpc = "sleep"
  /\ clock' = clock + POLL_INTERVAL
  /\ wlog' = Append(wlog, "sleep")
  /\ wpc' = "check"
  /\ UNCHANGED <<startTime, timeout, trueFrom, trueStays, throwFrom, werror>>

NextWait ==
  \/ WaitCheck /\ UNCHANGED <<retryVars, fixtureVars, moreVars>>
  \/ WaitEval /\ UNCHANGED <<retryVars, fixtureVars, moreVars>>
  \/ WaitSleep /\ UNCHANGED <<retryVars, fixtureVars, moreVars>>

RetryIdle ==
  /\ rpc = "loop"
  /\ attempt = 1
  /\ maxAttempts = 1
  /\ delayMs = 0
  /\ lastError = "undefined"
  /\ rlog = <<>>
  /\ rresult = "none"
  /\ rerror = "none"
  /\ relapsed = 0

FixtureIdle ==
  /\ fixture = "none"
  /\ fpc = "start"
  /\ credsValid = TRUE
  /\ url = "about:blank"
  /\ contextOpen = FALSE
  /\ closeCalls = 0
  /\ handed = FALSE
  /\ bodyResult = "none"
  /\ setupError = "none"
  /\ testResult = "none"
  /\ flog = <<>>

SessionIdle ==
  /\ acqFixture = <<>>
  /\ acqPc = <<>>
  /\ acqContext = <<>>
  /\ contextsOpen = {}
  /\ contextsCreated = 0

ConsoleIdle ==
  /\ cpc = "pending"
  /\ subscribed = FALSE
  /\ timerArmed = FALSE
  /\ pageOpen = TRUE
  /\ expectedMessage = <<"string", "">>
  /\ clog = <<>>
  /\ resolveCalls = 0
  /\ rejectCalls = 0

PollIdle ==
  /\ waiter = "none"
  /\ ppc = "check"
  /\ pclock = 0
  /\ ptimeout = 0
  /\ param = 0
  /\ valBefore = 0
  /\ valAfter = 0
  /\ changeAt = Never
  /\ plog = <<>>
  /\ perror = "none"

AnimIdle ==
  /\ primitive = "none"
  /\ apc = "start"
  /\ fates = <<>>
  /\ settled = {}
  /\ alog = <<>>

LoginIdle ==
  /\ lpClass = "none"
  /\ lpc = 0
  /\ loginArgs = <<>>
  /\ issued = <<>>
  /\ usernameValue = ""
  /\ passwordValue = ""
  /\ rememberChecked = FALSE
  /\ lpLog = <<>>

DialogIdle ==
  /\ handlers = <<>>
  /\ dialogs = <<>>
  /\ dlgEvents = 0

SpinnerIdle ==
  /\ spc = "start"
  /\ sclock = 0
  /\ sTimeout = 0
  /\ hiddenAt = Never
  /\ sFault = "none"
  /\ slog = <<>>

ApiIdle ==
  /\ mpc = "notCalled"
  /\ patterns = <<>>
  /\ waitState = <<>>
  /\ mlog = <<>>

PageIdle == LoginIdle /\ DialogIdle /\ SpinnerIdle /\ ApiIdle

MoreIdle == SessionIdle /\ ConsoleIdle /\ PollIdle /\ AnimIdle /\ PageIdle

\* The event loop runs the async function on and timers fire: weak fairness.
InitSpecWait == InitWait /\ RetryIdle /\ FixtureIdle /\ MoreIdle

SpecWait == InitSpecWait /\ [][NextWait]_vars /\ WF_vars(NextWait)

elapsedMs == clock - startTime

EvalCount == Cardinality({i \in 1..Len(wlog) : wlog[i] \in {"true", "false", "throw"}})

SleepCount == Cardinality({i \in 1..Len(wlog) : wlog[i] = "sleep"})

\* The condition becomes true at trueFrom, stays true and never throws.
BecomesTrueAndStays == trueFrom # Never /\ trueStays /\ throwFrom = Never

\* The condition is false at every instant and never throws.
NeverTrue == trueFrom = Never /\ throwFrom = Never

\* C1: a condition that becomes and stays true at an instant t < timeout after
\* the call makes waitForCondition return, no later than t + POLL_INTERVAL, and
\* never fail with a timeout.
C1_BecomesTrueReturns ==
  (BecomesTrueAndStays /\ trueFrom - startTime < timeout /\ wpc \in WaitTerminal)
    => (wpc = "returned" /\ elapsedMs <= (trueFrom - startTime) + POLL_INTERVAL)

\* C2: waitForCondition returns normally only on an evaluation that yielded
\* true, which is the first such evaluation and the last thing it did: no
\* evaluation and no sleep follows it.
C2_ReturnsOnFirstTrue ==
  wpc = "returned" =>
    /\ wlog # <<>>
    /\ Last(wlog) = "true"
    /\ \A i \in 1..(Len(wlog) - 1) : wlog[i] # "true"
    /\ ~ENABLED NextWait

C2_Witness ==
  /\ wpc = "returned"
  /\ SleepCount = 2
  /\ EvalCount = 3

\* C3: for a condition that never becomes true, waitForCondition ends in the
\* timeout error, at an elapsed time >= timeout and < timeout + POLL_INTERVAL.
C3_NeverTrueTimesOut ==
  NeverTrue ~> (/\ wpc = "timedout"
                /\ werror = "timeout"
                /\ elapsedMs >= timeout
                /\ elapsedMs < timeout + POLL_INTERVAL)

C3_Witness ==
  /\ NeverTrue
  /\ wpc = "timedout"
  /\ timeout = POLL_INTERVAL
  /\ elapsedMs = POLL_INTERVAL
  /\ EvalCount = 1

\* C4: with timeout = 0 the condition is evaluated exactly once, without any
\* sleep; the call returns if that evaluation is true and fails if it is false.
C4_ZeroBudgetEvaluatesOnce ==
  (timeout = 0 /\ throwFrom = Never /\ wpc \in WaitTerminal) =>
    /\ EvalCount = 1
    /\ SleepCount = 0
    /\ (condition(startTime) = "true" => wpc = "returned")
    /\ (condition(startTime) = "false" => wpc = "timedout")

\* C5: an evaluation that throws ends waitForCondition at once with that very
\* error: nothing is evaluated or slept after it, and the error is not the
\* timeout error.
C5_ThrowPropagates ==
  \A i \in 1..Len(wlog) :
    wlog[i] = "throw" =>
      /\ i = Len(wlog)
      /\ wpc = "threw"
      /\ werror = "conditionError"
      /\ ~ENABLED NextWait

C5_Witness ==
  /\ wpc = "threw"
  /\ Last(wlog) = "throw"
  /\ SleepCount = 1
  /\ elapsedMs < timeout

(***************************************************************************)
(* WaitUtil.retryUntilSuccess                                              *)
(***************************************************************************)

WaitIdle ==
  /\ wpc = "check"
  /\ clock = 0
  /\ startTime = 0
  /\ timeout = 0
  /\ trueFrom = Never
  /\ trueStays = FALSE
  /\ throwFrom = Never
  /\ wlog = <<>>
  /\ werror = "none"

\* Largest maxAttempts a caller passes in the model.
MaxMaxAttempts == 3

\* Messages of the errors action() rejects with, and the values it resolves to.
Messages == {"e1", "e2"}

Values == {"v1", "v2"}

\* for (...; attempt <= maxAttempts; ...)
LoopContinuesOneMore(a, n) == a <= n + 1

LoopContinues(a, n) == a <= n

\* if (attempt < maxAttempts) await this.sleep(delayMs)
SleepAfterFailureAlways(a, n) == a <= n

SleepAfterFailure(a, n) == a < n

\* lastError = error as Error
CaughtErrorKeepFirst(old, new) == IF old = "undefined" THEN new ELSE old

CaughtError(old, new) == new

\* lastError?.message
MessageOf(e) == e

\* new Error(`Action failed after ${maxAttempts} attempts. Last error: ${...}`)
ExhaustedError(n, e) == [attempts |-> n, last |-> MessageOf(e)]

RetryTerminal == {"returned", "failed"}

InitRetry ==
  /\ rpc = "loop"
  /\ attempt = 1
  /\ maxAttempts \in -1..MaxMaxAttempts
  /\ delayMs \in {0, 50, 1000}
  /\ lastError = "undefined"
  /\ rlog = <<>>
  /\ rresult = "none"
  /\ rerror = "none"
  /\ relapsed = 0

\* The for loop's test; when it fails the function throws the final error.
RetryLoop ==
  /\ rpc = "loop"
  /\ IF LoopContinues(attempt, maxAttempts)
       THEN /\ rpc' = "call"
            /\ UNCHANGED rerror
       ELSE /\ rpc' = "failed"
            /\ rerror' = ExhaustedError(maxAttempts, lastError)
  /\ UNCHANGED <<attempt, maxAttempts, delayMs, lastError, rlog, rresult, relapsed>>

\* return await action(), resolving
RetryCallSucceeds ==
  /\ rpc = "call"
  /\ \E v \in Values :
       /\ rlog' = Append(rlog, <<"ok", v>>)
       /\ rresult' = v
  /\ rpc' = "returned"
  /\ UNCHANGED <<attempt, maxAttempts, delayMs, lastError, rerror, relapsed>>

\* return await action(), rejecting: the catch block
RetryCallFails ==
  /\ rpc = "call"
  /\ \E e \in Messages :
       /\ rlog' = Append(rlog, <<"fail", e>>)
       /\ lastError' = CaughtError(lastError, e)
  /\ IF SleepAfterFailure(attempt, maxAttempts)
       THEN /\ rpc' = "sleep"
            /\ UNCHANGED attempt
       ELSE /\ rpc' = "loop"
            /\ attempt' = attempt + 1
  /\ UNCHANGED <<maxAttempts, delayMs, rresult, rerror, relapsed>>

\* await this.sleep(delayMs), then attempt++
RetrySleep ==
  /\ rpc = "sleep"
  /\ rlog' = Append(rlog, <<"sleep", delayMs>>)
  /\ relapsed' = relapsed + delayMs
  /\ attempt' = attempt + 1
  /\ rpc' = "loop"
  /\ UNCHANGED <<maxAttempts, delayMs, lastError, rresult, rerror>>

NextRetry ==
  \/ RetryLoop /\ UNCHANGED <<waitVars, fixtureVars, moreVars>>
  \/ RetryCallSucceeds /\ UNCHANGED <<waitVars, fixtureVars, moreVars>>
  \/ RetryCallFails /\ UNCHANGED <<waitVars, fixtureVars, moreVars>>
  \/ RetrySleep /\ UNCHANGED <<waitVars, fixtureVars, moreVars>>

InitSpecRetry == WaitIdle /\ InitRetry /\ FixtureIdle /\ MoreIdle

SpecRetry == InitSpecRetry /\ [][NextRetry]_vars /\ WF_vars(NextRetry)

\* Positions in rlog of the invocations of action, and of the sleeps.
CallIdx == {i \in 1..Len(rlog) : rlog[i][1] \in {"ok", "fail"}}

SleepIdx == {i \in 1..Len(rlog) : rlog[i][1] = "sleep"}

NumCalls == Cardinality(CallIdx)

NumSleeps == Cardinality(SleepIdx)

\* C6: with maxAttempts >= 1, action is never invoked more than maxAttempts
\* times; a successful run invoked it exactly k times, the k-th being the first
\* success, whose value is returned; a failed run invoked it maxAttempts times.
C6_AttemptCount ==
  maxAttempts >= 1 =>
    /\ NumCalls <= maxAttempts
    /\ rpc = "returned" =>
         /\ rlog # <<>>
         /\ Last(rlog)[1] = "ok"
         /\ rresult = Last(rlog)[2]
         /\ \A i \in CallIdx : i < Len(rlog) => rlog[i][1] = "fail"
    /\ rpc = "failed" =>
         /\ NumCalls = maxAttempts
         /\ \A i \in CallIdx : rlog[i][1] = "fail"

C6_Witness ==
  /\ rpc = "returned"
  /\ maxAttempts = 3
  /\ NumCalls = 3
  /\ rresult = "v2"

C6_WitnessExhausted ==
  /\ rpc = "failed"
  /\ maxAttempts = 3
  /\ NumCalls = 3

\* C7: a sleep happens only between two attempts: it follows a failed attempt,
\* a finished run of k attempts has slept k-1 times (delayMs each) and did not
\* sleep after its final attempt, and with maxAttempts = 1 nothing sleeps.
C7_SleepsBetweenAttempts ==
  /\ \A i \in SleepIdx : i > 1 /\ rlog[i - 1][1] = "fail"
  /\ \A i \in SleepIdx : i < Len(rlog) => rlog[i + 1][1] \in {"ok", "fail"}
  /\ (rpc \in RetryTerminal /\ NumCalls >= 1) =>
       /\ NumSleeps = NumCalls - 1
       /\ Last(rlog)[1] \in {"ok", "fail"}
       /\ relapsed = (NumCalls - 1) * delayMs
  /\ maxAttempts = 1 => NumSleeps = 0

C7_Witness ==
  /\ rpc = "returned"
  /\ NumCalls = 3
  /\ NumSleeps = 2
  /\ delayMs = 50
  /\ relapsed = 100

C7_WitnessLastFailure ==
  /\ rpc = "failed"
  /\ NumCalls = 3
  /\ NumSleeps = 2

\* C8: when all maxAttempts attempts fail, the error raised carries the
\* attempt count and the error of the last attempt, not of an earlier one.
C8_LastErrorReported ==
  (rpc = "failed" /\ maxAttempts >= 1) =>
    /\ rerror.attempts = NumCalls
    /\ rerror.attempts = maxAttempts
    /\ Last(rlog)[1] = "fail"
    /\ rerror.last = Last(rlog)[2]

C8_Witness ==
  /\ rpc = "failed"
  /\ maxAttempts = 3
  /\ rlog[1] = <<"fail", "e1">>
  /\ Last(rlog) = <<"fail", "e2">>
  /\ rerror = [attempts |-> 3, last |-> "e2"]

(***************************************************************************)
(* Authentication fixtures: auth.fixture.ts (authenticatedPage, adminPage)  *)
(* and base.fixtures.ts (authenticatedPage)                                *)
(***************************************************************************)

AuthFixtures == {"auth.authenticatedPage", "auth.adminPage"}

BaseFixtures == {"base.authenticatedPage"}

\* Where the application can be after the login form was submitted: still on
\* the login page (rejected, or no navigation in time), or on a landing page.
LandingUrls == {"/dashboard", "/home", "/admin", "/profile"}

\* page.waitForURL(/dashboard|home/) resp. page.waitForURL(/dashboard|admin/)
PostLoginPattern(f) ==
  IF f = "auth.authenticatedPage" THEN {"/dashboard", "/home"}
  ELSE {"/dashboard", "/admin"}

\* What the runner records for a test whose fixtures were set up.
ResultOfBody(r) == IF r = "passed" THEN "passed" ELSE "failed"

\* The lifecycle state of spec section 4.4 that a position stands for.
FixtureState ==
  CASE fpc = "start"  -> "Uninitialized"
    [] fpc = "failed" -> "Failed"
    [] fpc = "body" \/ fpc = "teardown" -> "Ready"
    [] fpc = "done"   -> "TornDown"
    [] OTHER          -> "LoggingIn"

InitFixture ==
  /\ fixture \in AuthFixtures \cup BaseFixtures
  /\ fpc = "start"
  /\ credsValid \in BOOLEAN
  /\ url = "about:blank"
  /\ contextOpen = FALSE
  /\ closeCalls = 0
  /\ handed = FALSE
  /\ bodyResult = "none"
  /\ setupError = "none"
  /\ testResult = "none"
  /\ flog = <<>>

\* auth.fixture: browser.newContext() and context.newPage()
FxNewContext ==
  /\ fpc = "start"
  /\ fixture \in AuthFixtures
  /\ contextOpen' = TRUE
  /\ fpc' = "goto"
  /\ flog' = Append(flog, "newContext")
  /\ UNCHANGED <<fixture, credsValid, url, closeCalls, handed, bodyResult,
                 setupError, testResult>>

\* base.fixtures: the page comes from the runner's own page fixture
FxBuiltinPage ==
  /\ fpc = "start"
  /\ fixture \in BaseFixtures
  /\ fpc' = "goto"
  /\ flog' = Append(flog, "getCredentialsFromEnv")
  /\ UNCHANGED <<fixture, credsValid, url, contextOpen, closeCalls, handed,
                 bodyResult, setupError, testResult>>

\* await loginPage.goto(): navigation and load wait, which may fail
FxGoto ==
  /\ fpc = "goto"
  /\ \E ok \in BOOLEAN :
       IF ok
         THEN /\ url' = "/login"
              /\ fpc' = "login"
              /\ flog' = Append(flog, "goto")
              /\ UNCHANGED <<setupError, testResult>>
         ELSE /\ fpc' = "failed"
              /\ setupError' = "gotoError"
              /\ testResult' = "setupFailure"
              /\ flog' = Append(flog, "gotoThrows")
              /\ UNCHANGED url
  /\ UNCHANGED <<fixture, credsValid, contextOpen, closeCalls, handed, bodyResult>>

\* await loginPage.login(username, password): fill, fill, click (and the load
\* wait); a driver action may throw. The application then either leaves the
\* page on /login (credentials rejected, or no navigation) or lands somewhere.
FxLogin ==
  /\ fpc = "login"
  /\ \E ok \in BOOLEAN :
       IF ok
         THEN /\ url' \in (IF credsValid THEN LandingUrls \cup {"/login"}
                                         ELSE {"/login"})
              /\ fpc' = IF fixture \in AuthFixtures THEN "waitForURL"
                                                    ELSE "waitForPageLoad"
              /\ flog' = Append(flog, "login")
              /\ UNCHANGED <<setupError, testResult>>
         ELSE /\ fpc' = "failed"
              /\ setupError' = "loginError"
              /\ testResult' = "setupFailure"
              /\ flog' = Append(flog, "loginThrows")
              /\ UNCHANGED url
  /\ UNCHANGED <<fixture, credsValid, contextOpen, closeCalls, handed, bodyResult>>

\* auth.fixture: await page.waitForURL(pattern, { timeout: 10000 })
FxWaitForURLSwallow ==
  /\ fpc = "waitForURL"
  /\ fpc' = "use"
  /\ flog' = Append(flog, IF url \in PostLoginPattern(fixture)
                             THEN "urlMatched" ELSE "waitForURLTimeout")
  /\ UNCHANGED <<fixture, credsValid, url, contextOpen, closeCalls, handed,
                 bodyResult, setupError, testResult>>

FxWaitForURL ==
  /\ fpc = "waitForURL"
  /\ IF url \in PostLoginPattern(fixture)
       THEN /\ fpc' = "use"
            /\ flog' = Append(flog, "urlMatched")
            /\ UNCHANGED <<setupError, testResult>>
       ELSE /\ fpc' = "failed"
            /\ setupError' = "TimeoutError"
            /\ testResult' = "setupFailure"
            /\ flog' = Append(flog, "waitForURLTimeout")
  /\ UNCHANGED <<fixture, credsValid, url, contextOpen, closeCalls, handed,
                 bodyResult>>

\* base.fixtures: await loginPage.waitForPageLoad(), a load-state wait only
FxWaitForPageLoad ==
  /\ fpc = "waitForPageLoad"
  /\ \E ok \in BOOLEAN :
       IF ok
         THEN /\ fpc' = "use"
              /\ flog' = Append(flog, "pageLoaded")
              /\ UNCHANGED <<setupError, testResult>>
         ELSE /\ fpc' = "failed"
              /\ setupError' = "TimeoutError"
              /\ testResult' = "setupFailure"
              /\ flog' = Append(flog, "waitForPageLoadTimeout")
  /\ UNCHANGED <<fixture, credsValid, url, contextOpen, closeCalls, handed,
                 bodyResult>>

\* await use(page): the page is handed to the test body
FxUse ==
  /\ fpc = "use"
  /\ handed' = TRUE
  /\ fpc' = "body"
  /\ flog' = Append(flog, "use")
  /\ UNCHANGED <<fixture, credsValid, url, contextOpen, closeCalls, bodyResult,
                 setupError, testResult>>

\* The test body finishes (the runner's test timeout bounds it), passing or
\* throwing. The runner resolves use() in both cases: a failure of the body is
\* recorded by the runner and is not thrown into the fixture function, which
\* goes on with the statements after await use(page).
\* While it runs, the body may itself log out, which leaves the page on /login.
FxBodyEnds ==
  /\ fpc = "body"
  /\ \E r \in {"passed", "threw"}, loggedOut \in BOOLEAN :
       /\ bodyResult' = r
       /\ testResult' = ResultOfBody(r)
       /\ fpc' = "teardown"
       /\ url' = IF loggedOut THEN "/login" ELSE url
       /\ flog' = IF loggedOut THEN flog \o <<"bodyLoggedOut", r>>
                               ELSE Append(flog, r)
  /\ UNCHANGED <<fixture, credsValid, contextOpen, closeCalls, handed,
                 setupError>>

\* auth.fixture: await context.close()
FxCloseOnlyAfterPass ==
  /\ fpc = "teardown"
  /\ fixture \in AuthFixtures
  /\ closeCalls' = IF bodyResult = "passed" THEN closeCalls + 1 ELSE closeCalls
  /\ contextOpen' = (bodyResult # "passed")
  /\ fpc' = "done"
  /\ flog' = Append(flog, "close")
  /\ UNCHANGED <<fixture, credsValid, url, handed, bodyResult, setupError,
                 testResult>>

FxClose ==
  /\ fpc = "teardown"
  /\ fixture \in AuthFixtures
  /\ closeCalls' = closeCalls + 1
  /\ contextOpen' = FALSE
  /\ fpc' = "done"
  /\ flog' = Append(flog, "close")
  /\ UNCHANGED <<fixture, credsValid, url, handed, bodyResult, setupError,
                 testResult>>

\* DashboardPage.logout(): open the profile menu, click logout, wait for the
\* load. On /login the dashboard's controls are absent and the click times
\* out; on any page a driver action may fail.
LogoutOutcomes(u) == IF u = "/login" THEN {FALSE} ELSE BOOLEAN

\* base.fixtures: try { await dashboardPage.logout() } catch { console.log }
FxLogoutPropagates ==
  /\ fpc = "teardown"
  /\ fixture \in BaseFixtures
  /\ \E ok \in LogoutOutcomes(url) :
       IF ok
         THEN /\ flog' = Append(flog, "logout")
              /\ url' = "/login"
              /\ fpc' = "done"
              /\ UNCHANGED testResult
         ELSE /\ flog' = Append(flog, "logoutThrows")
              /\ fpc' = "failed"
              /\ testResult' = "teardownError"
              /\ UNCHANGED url
  /\ UNCHANGED <<fixture, credsValid, contextOpen, closeCalls, handed,
                 bodyResult, setupError>>

FxLogout ==
  /\ fpc = "teardown"
  /\ fixture \in BaseFixtures
  /\ \E ok \in LogoutOutcomes(url) :
       IF ok
         THEN /\ flog' = Append(flog, "logout")
              /\ url' = "/login"
         ELSE /\ flog' = Append(flog, "logoutFailedLogged")
              /\ UNCHANGED url
  /\ fpc' = "done"
  /\ UNCHANGED <<fixture, credsValid, contextOpen, closeCalls, handed,
                 bodyResult, setupError, testResult>>

NextFixture ==
  \/ FxNewContext /\ UNCHANGED <<waitVars, retryVars, moreVars>>
  \/ FxBuiltinPage /\ UNCHANGED <<waitVars, retryVars, moreVars>>
  \/ FxGoto /\ UNCHANGED <<waitVars, retryVars, moreVars>>
  \/ FxLogin /\ UNCHANGED <<waitVars, retryVars, moreVars>>
  \/ FxWaitForURL /\ UNCHANGED <<waitVars, retryVars, moreVars>>
  \/ FxWaitForPageLoad /\ UNCHANGED <<waitVars, retryVars, moreVars>>
  \/ FxUse /\ UNCHANGED <<waitVars, retryVars, moreVars>>
  \/ FxBodyEnds /\ UNCHANGED <<waitVars, retryVars, moreVars>>
  \/ FxClose /\ UNCHANGED <<waitVars, retryVars, moreVars>>
  \/ FxLogout /\ UNCHANGED <<waitVars, retryVars, moreVars>>

InitSpecFixture == WaitIdle /\ RetryIdle /\ InitFixture /\ MoreIdle

\* Every awaited driver call and the test body end (each carries a timeout).
SpecFixture == InitSpecFixture /\ [][NextFixture]_vars /\ WF_vars(NextFixture)

\* C9: once an auth.fixture fixture has handed its page to the test body, it
\* closes the context it created exactly once, after the body finished,
\* whether the body passed or threw.
C9_ContextClosedOnce ==
  /\ [](fixture \in AuthFixtures =>
          /\ closeCalls <= 1
          /\ (closeCalls = 1 => handed /\ bodyResult # "none")
          /\ (fpc = "done" => closeCalls = 1 /\ ~contextOpen))
  /\ (fixture \in AuthFixtures /\ handed) ~> (closeCalls = 1 /\ ~contextOpen)

C9_Witness ==
  /\ fixture \in AuthFixtures
  /\ handed
  /\ bodyResult = "threw"
  /\ fpc = "done"
  /\ closeCalls = 1

\* C10: with credentials the application rejects (no post-login navigation),
\* an authenticatedPage fixture never hands a page to the test body and ends
\* in Failed with a setup failure.
C10_InvalidCredentialsFail ==
  /\ [](( /\ fixture \in {"auth.authenticatedPage", "base.authenticatedPage"}
          /\ ~credsValid )
        => ~handed /\ FixtureState \notin {"Ready", "TornDown"})
  /\ ( /\ fixture \in {"auth.authenticatedPage", "base.authenticatedPage"}
       /\ ~credsValid )
     ~> (FixtureState = "Failed" /\ testResult = "setupFailure")

InLog(log, e) == \E i \in 1..Len(log) : log[i] = e

\* C11: in auth.fixture's fixtures a throwing login, or a post-login URL that
\* does not match the pattern within the timeout, ends the fixture in a failure
\* reported to the runner; use(page) is not called, the body never runs.
C11_SetupFailurePropagates ==
  fixture \in AuthFixtures =>
    /\ \A i \in 1..Len(flog) :
         flog[i] \in {"loginThrows", "waitForURLTimeout"} =>
           /\ i = Len(flog)
           /\ fpc = "failed"
           /\ ~handed
           /\ bodyResult = "none"
           /\ testResult = "setupFailure"
           /\ setupError = (IF flog[i] = "loginThrows" THEN "loginError"
                                                       ELSE "TimeoutError")
           /\ ~ENABLED NextFixture
    /\ handed => InLog(flog, "login") /\ InLog(flog, "urlMatched")

C11_Witness ==
  /\ fixture = "auth.adminPage"
  /\ credsValid
  /\ url = "/home"
  /\ fpc = "failed"
  /\ Last(flog) = "waitForURLTimeout"
  /\ setupError = "TimeoutError"

C11_WitnessLoginThrows ==
  /\ fixture = "auth.authenticatedPage"
  /\ fpc = "failed"
  /\ Last(flog) = "loginThrows"

\* The transitions of the lifecycle of spec section 4.4.
AllowedTransitions ==
  { <<"Uninitialized", "LoggingIn">>, <<"LoggingIn", "Ready">>,
    <<"Ready", "TornDown">>, <<"LoggingIn", "Failed">> }

\* The URLs that count as "logged in" for a fixture: the fixture's own pattern
\* where it has one, else any landing page.
ExpectedPostLogin(f) ==
  IF f \in AuthFixtures THEN PostLoginPattern(f) ELSE LandingUrls

\* C12: an authenticated fixture moves only along Uninitialized -> LoggingIn ->
\* Ready -> TornDown or LoggingIn -> Failed, and hands the page to the test
\* only after login completed and the URL matched the post-login pattern.
C12_LifecycleOrder ==
  /\ [][FixtureState' # FixtureState
          => <<FixtureState, FixtureState'>> \in AllowedTransitions]_vars
  /\ [][(~handed /\ handed')
          => (InLog(flog, "login") /\ url \in ExpectedPostLogin(fixture))]_vars

\* C18: in base.fixtures' authenticatedPage a failing teardown logout is caught
\* and logged: the fixture still ends normally and the result the runner
\* recorded for the test body is not changed by teardown.
C18_LogoutBestEffort ==
  (fixture \in BaseFixtures /\ bodyResult # "none") =>
    /\ testResult = ResultOfBody(bodyResult)
    /\ fpc \in {"teardown", "done"}
    /\ FixtureState # "Failed"
    /\ fpc = "done" => Last(flog) \in {"logout", "logoutFailedLogged"}

C18_Witness ==
  /\ fixture \in BaseFixtures
  /\ InLog(flog, "bodyLoggedOut")
  /\ bodyResult = "passed"
  /\ Last(flog) = "logoutFailedLogged"
  /\ fpc = "done"
  /\ testResult = "passed"

(***************************************************************************)
(* Concurrent acquisitions of auth.fixture's authenticatedPage / adminPage *)
(* (tests running in parallel against one browser)                         *)
(***************************************************************************)

\* Number of fixture acquisitions that run concurrently.
NumAcquisitions == 2

Acquisitions == 1..NumAcquisitions

\* const context = await browser.newContext(): every call of the fixture
\* function asks the browser for a context of its own; the browser numbers
\* the contexts it creates.
NewContextPooled(created, open) ==
  IF open = {} THEN created + 1 ELSE CHOOSE c \in open : TRUE

NewContext(created, open) == created + 1

InitSessions ==
  /\ acqFixture \in [Acquisitions -> AuthFixtures]
  /\ acqPc = [a \in Acquisitions |-> "start"]
  /\ acqContext = [a \in Acquisitions |-> 0]
  /\ contextsOpen = {}
  /\ contextsCreated = 0

\* browser.newContext() and context.newPage()
AcqNewContext(a) ==
  /\ acqPc[a] = "start"
  /\ LET c == NewContext(contextsCreated, contextsOpen) IN
       /\ acqContext' = [acqContext EXCEPT ![a] = c]
       /\ contextsOpen' = contextsOpen \cup {c}
       /\ contextsCreated' = IF c > contextsCreated THEN c ELSE contextsCreated
  /\ acqPc' = [acqPc EXCEPT ![a] = "loggingIn"]
  /\ UNCHANGED acqFixture

\* loginPage.goto(), loginPage.login(), page.waitForURL(): any of them may
\* throw, which ends the fixture function before use(page).
AcqLogin(a) ==
  /\ acqPc[a] = "loggingIn"
  /\ \E ok \in BOOLEAN :
       acqPc' = [acqPc EXCEPT ![a] = IF ok THEN "body" ELSE "failed"]
  /\ UNCHANGED <<acqFixture, acqContext, contextsOpen, contextsCreated>>

\* await use(page) resolves: the test body has finished
AcqBodyEnds(a) ==
  /\ acqPc[a] = "body"
  /\ acqPc' = [acqPc EXCEPT ![a] = "teardown"]
  /\ UNCHANGED <<acqFixture, acqContext, contextsOpen, contextsCreated>>

\* await context.close()
AcqClose(a) ==
  /\ acqPc[a] = "teardown"
  /\ contextsOpen' = contextsOpen \ {acqContext[a]}
  /\ acqPc' = [acqPc EXCEPT ![a] = "done"]
  /\ UNCHANGED <<acqFixture, acqContext, contextsCreated>>

otherThanSessions == <<waitVars, retryVars, fixtureVars, consoleVars, pollVars,
                       animVars, pageVars>>

NextSessions ==
  \/ \E a \in Acquisitions : AcqNewContext(a) /\ UNCHANGED otherThanSessions
  \/ \E a \in Acquisitions : AcqLogin(a) /\ UNCHANGED otherThanSessions
  \/ \E a \in Acquisitions : AcqBodyEnds(a) /\ UNCHANGED otherThanSessions
  \/ \E a \in Acquisitions : AcqClose(a) /\ UNCHANGED otherThanSessions

InitSpecSessions ==
  /\ WaitIdle /\ RetryIdle /\ FixtureIdle
  /\ InitSessions /\ ConsoleIdle /\ PollIdle /\ AnimIdle /\ PageIdle

SpecSessions == InitSpecSessions /\ [][NextSessions]_vars /\ WF_vars(NextSessions)

MaxConsoleEvents == 4

\* The texts of the console messages the page emits.
Texts == {"ready", "not ready yet", "boot"}

\* The values of expectedMessage: the string 'ready' and the RegExp /^ready/.
ExpectedMessages == {<<"string", "ready">>, <<"regex", "^ready">>}

\* typeof expectedMessage === 'string' ? text.includes(expectedMessage)
\*                                     : expectedMessage.test(text)
Matches(text, expected) ==
  IF expected[1] = "string"
    THEN text \in {"ready", "not ready yet"}
    ELSE text = "ready"

\* clearTimeout(timer) in the handler
TimerAfterMatchKept(armed) == armed

TimerAfterMatch(armed) == FALSE

\* resolve() and reject() settle a promise only while it is pending.
Settle(current, outcome) == IF current = "pending" THEN outcome ELSE current

\* The state when waitForConsoleMessage has returned its promise: the executor
\* has armed the timer and registered the handler.
InitConsole ==
  /\ cpc = "pending"
  /\ subscribed = TRUE
  /\ timerArmed = TRUE
  /\ pageOpen = TRUE
  /\ expectedMessage \in ExpectedMessages
  /\ clog = <<>>
  /\ resolveCalls = 0
  /\ rejectCalls = 0

\* The page emits a console message; the handler runs if it is registered.
ConsoleMessage ==
  /\ pageOpen
  /\ Len(clog) < MaxConsoleEvents
  /\ \E text \in Texts :
       /\ clog' = Append(clog, <<"msg", text>>)
       /\ IF subscribed /\ Matches(text, expectedMessage)
            THEN /\ timerArmed' = TimerAfterMatch(timerArmed)
                 /\ subscribed' = FALSE
                 /\ resolveCalls' = resolveCalls + 1
                 /\ cpc' = Settle(cpc, "resolved")
            ELSE UNCHANGED <<timerArmed, subscribed, resolveCalls, cpc>>
  /\ UNCHANGED <<pageOpen, expectedMessage, rejectCalls>>

\* The deadline timer fires: page.off('console', handler); reject(...)
ConsoleTimerFires ==
  /\ timerArmed
  /\ timerArmed' = FALSE
  /\ subscribed' = FALSE
  /\ rejectCalls' = rejectCalls + 1
  /\ cpc' = Settle(cpc, "rejected")
  /\ clog' = Append(clog, <<"timer", "">>)
  /\ UNCHANGED <<pageOpen, expectedMessage, resolveCalls>>

\* The page is closed by the test or the runner; waitForConsoleMessage has no
\* code that reacts to it.
ConsolePageCloses ==
  /\ pageOpen
  /\ pageOpen' = FALSE
  /\ clog' = Append(clog, <<"close", "">>)
  /\ UNCHANGED <<cpc, subscribed, timerArmed, expectedMessage, resolveCalls,
                 rejectCalls>>

otherThanConsole == <<waitVars, retryVars, fixtureVars, sessionVars, pollVars,
                      animVars, pageVars>>

NextConsole ==
  \/ ConsoleMessage /\ UNCHANGED otherThanConsole
  \/ ConsoleTimerFires /\ UNCHANGED otherThanConsole
  \/ ConsolePageCloses /\ UNCHANGED otherThanConsole

InitSpecConsole ==
  /\ WaitIdle /\ RetryIdle /\ FixtureIdle
  /\ SessionIdle /\ InitConsole /\ PollIdle /\ AnimIdle /\ PageIdle

\* An armed timer fires.
SpecConsole ==
  InitSpecConsole /\ [][NextConsole]_vars /\ WF_vars(ConsoleTimerFires)

\* C13: in every terminal case of waitForConsoleMessage (matching message,
\* timeout, or the page closed under the wait) the handler is no longer
\* registered on the page's 'console' event.
C13_NoSubscriptionLeft ==
  (cpc # "pending" \/ ~pageOpen) => ~subscribed

\* The events of clog that settle the wait: the timer, or a matching message.
IsSettling(ev) == ev[1] = "timer" \/ (ev[1] = "msg" /\ Matches(ev[2], expectedMessage))

SettlingIdx == {i \in 1..Len(clog) : IsSettling(clog[i])}

FirstSettling == CHOOSE i \in SettlingIdx : \A j \in SettlingIdx : i <= j

\* C14: message and timer race and exactly one wins: resolve/reject is called
\* once in all, the promise is resolved iff a matching message came before the
\* timer and rejected iff the timer came first, non-matching messages leave it
\* pending, and once it has settled neither the timer nor the handler is live.
C14_ExactlyOneWinner ==
  /\ resolveCalls + rejectCalls <= 1
  /\ (cpc = "pending") = (SettlingIdx = {})
  /\ cpc = "pending" => timerArmed /\ subscribed
  /\ cpc # "pending" =>
       /\ ~timerArmed
       /\ ~subscribed
       /\ (cpc = "resolved") = (clog[FirstSettling][1] = "msg")
       /\ (cpc = "rejected") = (clog[FirstSettling][1] = "timer")
       /\ resolveCalls = (IF cpc = "resolved" THEN 1 ELSE 0)
       /\ rejectCalls = (IF cpc = "rejected" THEN 1 ELSE 0)

C14_Witness ==
  /\ cpc = "resolved"
  /\ expectedMessage[1] = "regex"
  /\ clog = <<<<"msg", "not ready yet">>, <<"msg", "boot">>, <<"msg", "ready">>,
              <<"msg", "ready">>>>
  /\ resolveCalls = 1

C14_WitnessTimeout ==
  /\ cpc = "rejected"
  /\ clog = <<<<"msg", "boot">>, <<"timer", "">>, <<"msg", "ready">>>>
  /\ rejectCalls = 1
  /\ resolveCalls = 0

(***************************************************************************)
(* WaitUtil.waitForTextToChange, waitForTextToAppear, waitForElementCount, *)
(* waitForMinimumElementCount                                             *)
(***************************************************************************)

TextWaiters == {"waitForTextToChange", "waitForTextToAppear"}
CountWaiters == {"waitForElementCount", "waitForMinimumElementCount"}

\* Largest number of elements the locator matches.
MaxCount == 3

\* textContent() of the element: null, or a string.
Null == "<null>"
TextValues == {Null, "", " ", "Loading", "Done"}
InitialTexts == {"Loading", ""}
Counts == 0..MaxCount

\* What the page holds at instant t: valBefore until changeAt, valAfter from
\* then on.
ValueAt(t) == IF changeAt # Never /\ t >= changeAt THEN valAfter ELSE valBefore

\* A read that is taken once and reused on later polls.
ObserveCached(t) == ValueAt(0)

\* await locator.textContent() / await locator.count() inside the loop
Observe(t) == ValueAt(t)

\* currentText === initialText
TextChangedEq(currentText, initialText) == currentText = initialText

\* currentText !== initialText
TextChanged(currentText, initialText) == currentText # initialText

\* String.prototype.trim on the texts of TextValues
Trim(text) == IF text = " " THEN "" ELSE text

\* text && text.trim().length > 0
TextPresent(text) == text \notin {Null, ""} /\ Trim(text) # ""

\* The condition under which each waiter returns.
Satisfied(w, p, v) ==
  CASE w = "waitForTextToChange" -> TextChanged(v, p)
    [] w = "waitForTextToAppear" -> TextPresent(v)
    [] w = "waitForElementCount" -> v = p
    [] w = "waitForMinimumElementCount" -> v >= p

\* The Error each waiter throws, as the template of its message and the
\* values interpolated into it.
TimeoutErrorOf(w, p, t, actual) ==
  CASE w = "waitForTextToChange" ->
         <<"Text did not change from", p, "within", t, "ms">>
    [] w = "waitForTextToAppear" ->
         <<"Text did not appear within", t, "ms">>
    [] w = "waitForElementCount" ->
         <<"Expected", p, "elements, but found", actual, "within", t, "ms">>
    [] w = "waitForMinimumElementCount" ->
         <<"Expected at least", p, "elements, but found", actual, "within",
           t, "ms">>

InitPoll ==
  /\ waiter \in TextWaiters \cup CountWaiters
  /\ ppc = "check"
  /\ pclock = 0
  /\ ptimeout \in Instants
  /\ changeAt \in Instants \cup {Never}
  /\ plog = <<>>
  /\ perror = <<>>
  /\ CASE waiter = "waitForTextToChange" ->
            param \in InitialTexts /\ valBefore \in TextValues
              /\ valAfter \in TextValues
       [] waiter = "waitForTextToAppear" ->
            param = "" /\ valBefore \in TextValues /\ valAfter \in TextValues
       [] OTHER ->
            param \in Counts /\ valBefore \in Counts /\ valAfter \in Counts

\* while (Date.now() - startTime < timeout); the text waiters throw right
\* after the loop, the count waiters read the count once more first.
PollCheck ==
  /\ ppc = "check"
  /\ IF pclock < ptimeout
       THEN ppc' = "read" /\ perror' = perror
       ELSE IF waiter \in CountWaiters
         THEN ppc' = "finalRead" /\ perror' = perror
         ELSE /\ ppc' = "timedout"
              /\ perror' = TimeoutErrorOf(waiter, param, ptimeout, 0)
  /\ UNCHANGED <<waiter, pclock, ptimeout, param, valBefore, valAfter,
                 changeAt, plog>>

PollRead ==
  /\ ppc = "read"
  /\ LET v == Observe(pclock) IN
       /\ plog' = Append(plog, <<"read", pclock, v>>)
       /\ ppc' = IF Satisfied(waiter, param, v) THEN "returned" ELSE "sleep"
  /\ UNCHANGED <<waiter, pclock, ptimeout, param, valBefore, valAfter,
                 changeAt, perror>>

PollSleep ==
  /\ ppc = "sleep"
  /\ pclock' = pclock + POLL_INTERVAL
  /\ ppc' = "check"
  /\ UNCHANGED <<waiter, ptimeout, param, valBefore, valAfter, changeAt, plog,
                 perror>>

\* const actualCount = await locator.count(); throw new Error(...)
PollFinalRead ==
  /\ ppc = "finalRead"
  /\ LET actualCount == Observe(pclock) IN
       /\ plog' = Append(plog, <<"finalRead", pclock, actualCount>>)
       /\ perror' = TimeoutErrorOf(waiter, param, ptimeout, actualCount)
  /\ ppc' = "timedout"
  /\ UNCHANGED <<waiter, pclock, ptimeout, param, valBefore, valAfter,
                 changeAt>>

otherThanPoll == <<waitVars, retryVars, fixtureVars, sessionVars, consoleVars,
                   animVars, pageVars>>

NextPoll ==
  \/ PollCheck /\ UNCHANGED otherThanPoll
  \/ PollRead /\ UNCHANGED otherThanPoll
  \/ PollSleep /\ UNCHANGED otherThanPoll
  \/ PollFinalRead /\ UNCHANGED otherThanPoll

InitSpecPoll ==
  /\ WaitIdle /\ RetryIdle /\ FixtureIdle
  /\ SessionIdle /\ ConsoleIdle /\ InitPoll /\ AnimIdle /\ PageIdle

SpecPoll == InitSpecPoll /\ [][NextPoll]_vars /\ WF_vars(NextPoll)
PollTerminal == {"returned", "timedout"}

\* The reads of plog taken inside the loop.
LoopReads == {i \in 1..Len(plog) : plog[i][1] = "read"}

\* C15: waitForElementCount and waitForMinimumElementCount read the count
\* anew on every poll (each value read is the page's count at that instant)
\* and return only on a poll whose fresh count satisfies the comparison; with
\* a collection going from 0 to 3 at changeAt, a waiter for at least 2 never
\* returns before changeAt.
C15_FreshCountEveryPoll ==
  waiter \in CountWaiters =>
    /\ \A i \in 1..Len(plog) : plog[i][3] = ValueAt(plog[i][2])
    /\ ppc = "returned" =>
         /\ plog # <<>>
         /\ Last(plog)[1] = "read"
         /\ Last(plog)[2] = pclock
         /\ Satisfied(waiter, param, ValueAt(pclock))
         /\ \A i \in LoopReads \ {Len(plog)} :
              ~Satisfied(waiter, param, plog[i][3])
    /\ ( /\ waiter = "waitForMinimumElementCount"
         /\ param = 2 /\ valBefore = 0 /\ valAfter = 3
         /\ ppc = "returned" )
       => changeAt # Never /\ pclock >= changeAt

C15_Witness ==
  /\ waiter = "waitForMinimumElementCount"
  /\ param = 2 /\ valBefore = 0 /\ valAfter = 3
  /\ changeAt = 3 * Granule
  /\ ppc = "returned"
  /\ pclock = POLL_INTERVAL
  /\ plog = <<<<"read", 0, 0>>, <<"read", POLL_INTERVAL, 3>>>>

C15_WitnessExact ==
  /\ waiter = "waitForElementCount"
  /\ param = 1 /\ valBefore = 2 /\ valAfter = 1
  /\ ppc = "returned"
  /\ Len(plog) = 3

\* The instants at which a waiter with this timeout polls.
PollInstants == {t \in Instants : t % POLL_INTERVAL = 0 /\ t < ptimeout}

\* The text equals initialText on every poll up to the deadline.
TextStays == \A t \in PollInstants : ValueAt(t) = param

\* C16: waitForTextToChange returns only after a poll read a text different
\* from initialText, and ends with its timeout error when the text equals
\* initialText on every poll up to the deadline.
C16_TextChange ==
  /\ [](waiter = "waitForTextToChange" =>
          /\ ppc = "returned" =>
               /\ plog # <<>>
               /\ Last(plog) = <<"read", pclock, ValueAt(pclock)>>
               /\ ValueAt(pclock) # param
               /\ ~TextStays
          /\ ppc = "timedout" =>
               /\ \A i \in 1..Len(plog) : plog[i][3] = param
               /\ perror = <<"Text did not change from", param, "within",
                             ptimeout, "ms">>)
  /\ (waiter = "waitForTextToChange" /\ TextStays) ~> (ppc = "timedout")

C16_Witness ==
  /\ waiter = "waitForTextToChange"
  /\ param = "Loading" /\ valBefore = "Loading" /\ valAfter = "Done"
  /\ ppc = "returned"
  /\ plog = <<<<"read", 0, "Loading">>, <<"read", POLL_INTERVAL, "Loading">>,
              <<"read", 2 * POLL_INTERVAL, "Done">>>>

C16_WitnessTimeout ==
  /\ waiter = "waitForTextToChange"
  /\ param = "Loading" /\ valBefore = "Loading" /\ valAfter = "Done"
  /\ changeAt = 6 * Granule
  /\ ptimeout = 6 * Granule
  /\ ppc = "timedout"
  /\ Len(plog) = 2

\* What the thrown Error's message carries: the expectation, a duration, and
\* an observed value; <<>> where the message has none.
ErrExpected(err) ==
  CASE err[1] = "Text did not change from" -> <<"changed from", err[2]>>
    [] err[1] = "Text did not appear within" -> <<"text appears">>
    [] err[1] = "Expected" -> <<"count", err[2]>>
    [] err[1] = "Expected at least" -> <<"count at least", err[2]>>

ErrDuration(err) ==
  CASE err[1] = "Text did not change from" -> <<err[4]>>
    [] err[1] = "Text did not appear within" -> <<err[2]>>
    [] err[1] = "Expected" -> <<err[6]>>
    [] err[1] = "Expected at least" -> <<err[6]>>

ErrObserved(err) ==
  CASE err[1] = "Text did not change from" -> <<>>
    [] err[1] = "Text did not appear within" -> <<>>
    [] err[1] = "Expected" -> <<err[4]>>
    [] err[1] = "Expected at least" -> <<err[4]>>

\* The value the wait observed last, <<>> if it observed none.
LastObserved == IF plog = <<>> THEN <<>> ELSE <<Last(plog)[3]>>

\* C20: the error of a polling wait that timed out carries what was expected,
\* the time the wait had spent when it gave up, and the value it observed
\* last.
C20_TimeoutErrorCarriesContext ==
  ppc = "timedout" =>
    /\ ErrExpected(perror) # <<>>
    /\ ErrDuration(perror) = <<pclock>>
    /\ ErrObserved(perror) = LastObserved
(***************************************************************************)
(* WaitUtil.waitForAnimationsToComplete, waitForElementToBeStable          *)
(***************************************************************************)

\* Largest number of animations on the element.
NumAnims == 3

AnimPrimitives == {"waitForAnimationsToComplete", "waitForElementToBeStable"}

\* What becomes of an animation's `finished` promise: it resolves, it rejects
\* (the animation is cancelled), or it stays pending (an animation with an
\* infinite iteration count).
Fates == {"finishes", "cancelled", "never"}

AnimTerminal == {"returned", "failed"}

\* element.getAnimations(), each with the fate of its finished promise.
AnimationLists ==
  UNION {[1..n -> Fates] : n \in 0..NumAnims}

InitAnim ==
  /\ primitive \in AnimPrimitives
  /\ apc = "start"
  /\ fates \in AnimationLists
  /\ settled = {}
  /\ alog = <<>>

\* waitForAnimationsToComplete goes straight to locator.evaluate;
\* waitForElementToBeStable first runs expect(locator).toBeVisible({timeout}),
\* which passes or fails within the timeout.
AnimStart ==
  /\ apc = "start"
  /\ IF primitive = "waitForElementToBeStable"
       THEN \E visible \in BOOLEAN :
              /\ alog' = Append(alog, <<"toBeVisible", visible>>)
              /\ apc' = IF visible THEN "waitFor" ELSE "failed"
       ELSE /\ alog' = alog
            /\ apc' = "evaluate"
  /\ UNCHANGED <<primitive, fates, settled>>

\* locator.waitFor({ state: 'visible', timeout })
AnimWaitFor ==
  /\ apc = "waitFor"
  /\ \E visible \in BOOLEAN :
       /\ alog' = Append(alog, <<"waitFor", visible>>)
       /\ apc' = IF visible THEN "evaluate" ELSE "failed"
  /\ UNCHANGED <<primitive, fates, settled>>

\* locator.evaluate(...) starts: the page function collects the finished
\* promises and the caller awaits the result, with no timer.
AnimEvaluate ==
  /\ apc = "evaluate"
  /\ apc' = "awaiting"
  /\ alog' = Append(alog, <<"getAnimations", Len(fates)>>)
  /\ UNCHANGED <<primitive, fates, settled>>

\* One animation's finished promise settles.
AnimSettles ==
  /\ apc = "awaiting"
  /\ \E i \in DOMAIN fates \ settled :
       /\ fates[i] # "never"
       /\ settled' = settled \cup {i}
       /\ alog' = Append(alog, <<fates[i], i>>)
  /\ UNCHANGED <<primitive, apc, fates>>

\* Promise.all rejects as soon as one promise has rejected and resolves when
\* all have resolved. waitForElementToBeStable resolves in both cases
\* (.then(resolve).catch(resolve)); waitForAnimationsToComplete returns the
\* Promise.all itself, so a rejection makes evaluate throw.
AnimAllSettled ==
  /\ apc = "awaiting"
  /\ LET rejected == \E i \in settled : fates[i] = "cancelled"
         resolved == settled = DOMAIN fates
     IN /\ rejected \/ resolved
        /\ apc' = IF rejected /\ primitive = "waitForAnimationsToComplete"
                    THEN "failed" ELSE "returned"
        /\ alog' = Append(alog, <<"Promise.all",
                                  IF rejected THEN "rejected" ELSE "resolved">>)
  /\ UNCHANGED <<primitive, fates, settled>>

otherThanAnim == <<waitVars, retryVars, fixtureVars, sessionVars, consoleVars,
                   pollVars, pageVars>>

NextAnim ==
  \/ AnimStart /\ UNCHANGED otherThanAnim
  \/ AnimWaitFor /\ UNCHANGED otherThanAnim
  \/ AnimEvaluate /\ UNCHANGED otherThanAnim
  \/ AnimSettles /\ UNCHANGED otherThanAnim
  \/ AnimAllSettled /\ UNCHANGED otherThanAnim

InitSpecAnim ==
  /\ WaitIdle /\ RetryIdle /\ FixtureIdle
  /\ SessionIdle /\ ConsoleIdle /\ PollIdle /\ InitAnim /\ PageIdle

SpecAnim == InitSpecAnim /\ [][NextAnim]_vars /\ WF_vars(NextAnim)

\* C19: every wait primitive terminates, whatever the page does: the wait
\* returns or fails even when an animation never finishes.
C19_EveryWaitTerminates == <>(apc \in AnimTerminal)
(***************************************************************************)
(* Further properties of waitForCondition, the count waiters,              *)
(* retryUntilSuccess and the auth fixtures                                 *)
(***************************************************************************)

IsEval(x) == x \in {"true", "false", "throw"}

Ceil(a, b) == (a + b - 1) \div b

\* C24: waitForCondition does not busy-spin: consecutive evaluations of the
\* condition are separated by exactly one sleep of POLL_INTERVAL, no evaluation
\* starts once the elapsed time has reached the timeout, and a never-true
\* condition is evaluated at most ceil(timeout / POLL_INTERVAL) times.
C24_NoBusySpin ==
  /\ \A i \in 1..(Len(wlog) - 1) :
       /\ IsEval(wlog[i]) => wlog[i + 1] = "sleep"
       /\ wlog[i] = "sleep" => wlog[i + 1] # "sleep"
  /\ elapsedMs = SleepCount * POLL_INTERVAL
  /\ wpc = "eval" => elapsedMs < timeout
  /\ NeverTrue => EvalCount <= Ceil(timeout, POLL_INTERVAL)

C24_Witness ==
  /\ NeverTrue
  /\ wpc = "timedout"
  /\ timeout = 12 * Granule
  /\ EvalCount = 3
  /\ SleepCount = 3
\* C25: the count reported in the timeout error of waitForElementCount
\* (waitForMinimumElementCount) is a count for which the wait condition was
\* false: it differs from expectedCount (is below minCount).
C25_ReportedCountFailsCondition ==
  (waiter \in CountWaiters /\ ppc = "timedout") =>
    ~Satisfied(waiter, param, ErrObserved(perror)[1])
\* C26: whenever retryUntilSuccess fails, action has been invoked at least
\* once and the last error reported is the error of an actual invocation,
\* never undefined, for every maxAttempts including 0 and negative values.
C26_FailureHasRealError ==
  rpc = "failed" =>
    /\ NumCalls >= 1
    /\ rerror.last # "undefined"
    /\ \E i \in CallIdx : rlog[i] = <<"fail", rerror.last>>
\* C23: every browser context created by auth.fixture's authenticatedPage or
\* adminPage is eventually closed by that fixture, on every path, including
\* the paths where goto, login or waitForURL fails during setup.
C23_ContextEventuallyClosed ==
  (fixture \in AuthFixtures /\ contextOpen) ~> (~contextOpen /\ closeCalls = 1)
(***************************************************************************)
(* LoginPage (src/pages/login.page.ts, and the older class of the same     *)
(* name with a two-parameter login)                                        *)
(***************************************************************************)

\* Number of method calls made on one page object.
MaxPageCalls == 3

LoginPageClasses == {"login.page", "LoginPage"}

Usernames == {"", "testuser", "admin"}

Passwords == {"", "password"}

\* The readonly Locator fields each class declares.
DeclaredLocators(c) ==
  IF c = "login.page"
    THEN {"usernameInput", "passwordInput", "loginButton",
          "rememberMeCheckbox", "forgotPasswordLink", "errorMessage",
          "successMessage", "pageTitle", "logo", "showPasswordButton",
          "signUpLink"}
    ELSE {"usernameInput", "passwordInput", "loginButton", "errorMessage",
          "successMessage", "forgotPasswordLink", "rememberMeCheckbox",
          "loginTitle"}

\* The fields the constructor assigns; in login.page.ts the assignment of
\* forgotPasswordLink is commented out.
InitialisedLocators(c) ==
  IF c = "login.page"
    THEN {"usernameInput", "passwordInput", "loginButton",
          "rememberMeCheckbox", "errorMessage", "successMessage",
          "pageTitle", "logo", "showPasswordButton", "signUpLink"}
    ELSE {"usernameInput", "passwordInput", "loginButton", "errorMessage",
          "successMessage", "forgotPasswordLink", "rememberMeCheckbox",
          "loginTitle"}

\* The awaited driver actions of login(), in program order.
LoginSteps(c, rememberMe) ==
  IF c = "login.page"
    THEN <<<<"fill", "usernameInput">>, <<"fill", "passwordInput">>>>
         \o (IF rememberMe THEN <<<<"check", "rememberMeCheckbox">>>>
                           ELSE <<>>)
         \o <<<<"click", "loginButton">>,
              <<"waitForLoadState", "networkidle">>>>
    ELSE <<<<"fill", "usernameInput">>, <<"fill", "passwordInput">>,
           <<"click", "loginButton">>>>

\* A login() that goes on with its next step after a failed one.
AfterStepSwallow(i, ok, n) == IF i = n THEN 0 ELSE i + 1

\* await: a rejected driver action leaves login() with that error; otherwise
\* the next statement runs, and after the last one login() returns.
AfterStep(i, ok, n) == IF ~ok \/ i = n THEN 0 ELSE i + 1

\* locator.fill(text) replaces the input's value
Filled(old, text) == text

\* A clear that leaves the value in place.
ClearedKept(old) == old

\* locator.clear() empties the input
Cleared(old) == ""

\* locator.inputValue()
getValue(v) == v

getUsernameValue == getValue(usernameValue)

getPasswordValue == getValue(passwordValue)

InitLogin ==
  /\ lpClass \in LoginPageClasses
  /\ lpc = 0
  /\ loginArgs = <<>>
  /\ issued = <<>>
  /\ usernameValue = ""
  /\ passwordValue = ""
  /\ rememberChecked = FALSE
  /\ lpLog = <<>>

CanCall == lpc = 0 /\ Len(lpLog) < MaxPageCalls

\* fillUsername(username) (enterUsername in the older class)
LpFillUsername ==
  /\ CanCall
  /\ \E u \in Usernames, ok \in BOOLEAN :
       /\ usernameValue' = IF ok THEN Filled(usernameValue, u)
                                 ELSE usernameValue
       /\ lpLog' = Append(lpLog, <<"fillUsername", u, ok>>)
  /\ UNCHANGED <<lpClass, lpc, loginArgs, issued, passwordValue,
                 rememberChecked>>

\* fillPassword(password)
LpFillPassword ==
  /\ CanCall
  /\ \E pw \in Passwords, ok \in BOOLEAN :
       /\ passwordValue' = IF ok THEN Filled(passwordValue, pw)
                                 ELSE passwordValue
       /\ lpLog' = Append(lpLog, <<"fillPassword", pw, ok>>)
  /\ UNCHANGED <<lpClass, lpc, loginArgs, issued, usernameValue,
                 rememberChecked>>

\* clearLoginForm(): clear the username input, then the password input; a
\* failing clear throws and skips what follows.
LpClearLoginForm ==
  /\ CanCall
  /\ lpClass = "login.page"
  /\ \E ok1 \in BOOLEAN, ok2 \in BOOLEAN :
       /\ usernameValue' = IF ok1 THEN Cleared(usernameValue)
                                  ELSE usernameValue
       /\ passwordValue' = IF ok1 /\ ok2 THEN Cleared(passwordValue)
                                         ELSE passwordValue
       /\ lpLog' = Append(lpLog, <<"clearLoginForm", "", ok1 /\ ok2>>)
  /\ UNCHANGED <<lpClass, lpc, loginArgs, issued, rememberChecked>>

\* clickForgotPassword(): this.click(this.forgotPasswordLink), which calls
\* locator.click() on the field's value.
LpClickForgotPassword ==
  /\ CanCall
  /\ IF "forgotPasswordLink" \in InitialisedLocators(lpClass)
       THEN \E ok \in BOOLEAN :
              lpLog' = Append(lpLog, <<"clickForgotPassword", "", ok>>)
       ELSE lpLog' = Append(lpLog, <<"clickForgotPassword", "TypeError",
                                     FALSE>>)
  /\ UNCHANGED <<lpClass, lpc, loginArgs, issued, usernameValue,
                 passwordValue, rememberChecked>>

\* login(username, password, rememberMe) is called.
LpLoginCall ==
  /\ CanCall
  /\ \E u \in Usernames, pw \in Passwords, r \in BOOLEAN :
       /\ lpClass = "LoginPage" => ~r
       /\ loginArgs' = <<u, pw, r>>
  /\ issued' = <<>>
  /\ lpc' = 1
  /\ UNCHANGED <<lpClass, usernameValue, passwordValue, rememberChecked, lpLog>>

\* The next awaited driver action of the running login().
LpLoginStep ==
  /\ lpc > 0
  /\ LET steps == LoginSteps(lpClass, loginArgs[3])
         step == steps[lpc]
     IN \E ok \in BOOLEAN :
          /\ issued' = Append(issued, <<step[1], step[2], ok>>)
          /\ usernameValue' =
               IF ok /\ step = <<"fill", "usernameInput">>
                 THEN Filled(usernameValue, loginArgs[1]) ELSE usernameValue
          /\ passwordValue' =
               IF ok /\ step = <<"fill", "passwordInput">>
                 THEN Filled(passwordValue, loginArgs[2]) ELSE passwordValue
          /\ rememberChecked' = (rememberChecked \/ (ok /\ step[1] = "check"))
          /\ lpc' = AfterStep(lpc, ok, Len(steps))
          /\ lpLog' = IF AfterStep(lpc, ok, Len(steps)) = 0
                        THEN Append(lpLog, <<"login", "", ok>>)
                        ELSE lpLog
  /\ UNCHANGED <<lpClass, loginArgs>>

otherThanLogin == <<waitVars, retryVars, fixtureVars, sessionVars, consoleVars,
                    pollVars, animVars, dialogVars, spinnerVars, apiVars>>

NextLogin ==
  \/ LpFillUsername /\ UNCHANGED otherThanLogin
  \/ LpFillPassword /\ UNCHANGED otherThanLogin
  \/ LpClearLoginForm /\ UNCHANGED otherThanLogin
  \/ LpClickForgotPassword /\ UNCHANGED otherThanLogin
  \/ LpLoginCall /\ UNCHANGED otherThanLogin
  \/ LpLoginStep /\ UNCHANGED otherThanLogin

InitSpecLogin ==
  /\ WaitIdle /\ RetryIdle /\ FixtureIdle
  /\ SessionIdle /\ ConsoleIdle /\ PollIdle /\ AnimIdle
  /\ InitLogin /\ DialogIdle /\ SpinnerIdle /\ ApiIdle

\* Every awaited driver action ends (each carries the action timeout).
SpecLogin == InitSpecLogin /\ [][NextLogin]_vars /\ WF_vars(LpLoginStep)
\* Positions in issued of a driver action on a target that succeeded.
DoneIdx(action, target) ==
  {i \in 1..Len(issued) : issued[i] = <<action, target, TRUE>>}

ClickIdx == {i \in 1..Len(issued) : issued[i][1] = "click"}

\* C21: login(username, password, rememberMe) issues its driver actions in
\* the order fill username, fill password, check remember-me (iff rememberMe),
\* click login, wait for load; an action is issued only after the previous
\* one completed, and the click is never issued when a fill failed.
C21_LoginOrder ==
  loginArgs # <<>> =>
    LET steps == LoginSteps(lpClass, loginArgs[3]) IN
      /\ Len(issued) <= Len(steps)
      /\ \A i \in 1..Len(issued) :
           /\ issued[i][1] = steps[i][1]
           /\ issued[i][2] = steps[i][2]
           /\ i < Len(issued) => issued[i][3]
      /\ lpClass = "login.page" =>
           steps = <<<<"fill", "usernameInput">>, <<"fill", "passwordInput">>>>
                   \o (IF loginArgs[3]
                         THEN <<<<"check", "rememberMeCheckbox">>>> ELSE <<>>)
                   \o <<<<"click", "loginButton">>,
                        <<"waitForLoadState", "networkidle">>>>
      /\ \A i \in ClickIdx :
           /\ \E j \in DoneIdx("fill", "usernameInput") : j < i
           /\ \E j \in DoneIdx("fill", "passwordInput") : j < i
           /\ (lpClass = "login.page" /\ loginArgs[3]) =>
                \E j \in DoneIdx("check", "rememberMeCheckbox") : j < i
      /\ (\E i \in 1..Len(issued) : issued[i][1] = "check") => loginArgs[3]
      /\ (lpc = 0 /\ Last(lpLog) = <<"login", "", TRUE>>) =>
           /\ Len(issued) = Len(steps)
           /\ usernameValue = loginArgs[1]
           /\ passwordValue = loginArgs[2]

C21_Witness ==
  /\ lpClass = "login.page"
  /\ loginArgs = <<"testuser", "password", TRUE>>
  /\ lpc = 0
  /\ issued = <<<<"fill", "usernameInput", TRUE>>,
                <<"fill", "passwordInput", TRUE>>,
                <<"check", "rememberMeCheckbox", TRUE>>,
                <<"click", "loginButton", TRUE>>,
                <<"waitForLoadState", "networkidle", TRUE>>>>

C21_WitnessFillFails ==
  /\ lpClass = "login.page"
  /\ lpc = 0
  /\ issued = <<<<"fill", "usernameInput", TRUE>>,
                <<"fill", "passwordInput", FALSE>>>>
  /\ Last(lpLog) = <<"login", "", FALSE>>

\* The method call that has just been added to lpLog, "" if none was.
Finished == IF lpLog' # lpLog THEN Last(lpLog')[1] ELSE ""

\* C22: once clearLoginForm has completed both inputs are empty, whatever was
\* filled before; after fillUsername(u) / fillPassword(p) the getters return
\* u and p, and each fill leaves the other field as it was.
C22_ClearEmptiesForm ==
  /\ [](lpLog # <<>> /\ lpc = 0 /\ Last(lpLog)[3] =>
         /\ Last(lpLog)[1] = "clearLoginForm" =>
              getUsernameValue = "" /\ getPasswordValue = ""
         /\ Last(lpLog)[1] = "fillUsername" =>
              getUsernameValue = Last(lpLog)[2]
         /\ Last(lpLog)[1] = "fillPassword" =>
              getPasswordValue = Last(lpLog)[2])
  /\ [][/\ Finished = "fillUsername" => passwordValue' = passwordValue
        /\ Finished = "fillPassword" => usernameValue' = usernameValue]_vars

C22_Witness ==
  /\ lpLog = <<<<"fillUsername", "testuser", TRUE>>,
               <<"fillPassword", "password", TRUE>>,
               <<"clearLoginForm", "", TRUE>>>>
  /\ getUsernameValue = ""
  /\ getPasswordValue = ""

C22_WitnessFilled ==
  /\ lpLog = <<<<"fillUsername", "testuser", TRUE>>,
               <<"fillPassword", "password", TRUE>>>>
  /\ getUsernameValue = "testuser"
  /\ getPasswordValue = "password"

\* C30: every locator field LoginPage (login.page.ts) declares is initialised
\* by its constructor, so every action method, clickForgotPassword included,
\* operates on a defined locator.
C30_LocatorsInitialised ==
  lpClass = "login.page" =>
    /\ DeclaredLocators(lpClass) \subseteq InitialisedLocators(lpClass)
    /\ \A i \in 1..Len(lpLog) : lpLog[i][2] # "TypeError"
(***************************************************************************)
(* BasePage.acceptAlert / dismissAlert                                     *)
(***************************************************************************)

\* Number of acceptAlert / dismissAlert calls and dialog events in a run.
MaxDialogEvents == 5

\* What happens to a dialog when the page emits 'dialog' with the listeners
\* hs registered: every listener runs, in registration order, and calls
\* dialog.accept() or dialog.dismiss(); the first call handles the dialog and
\* each later call is rejected because the dialog is already handled. With no
\* listener the browser library dismisses the dialog itself.
CallsOn(hs) ==
  IF hs = <<>>
    THEN <<<<"autoDismiss", "handled">>>>
    ELSE [i \in 1..Len(hs) |->
            <<hs[i], IF i = 1 THEN "handled" ELSE "alreadyHandled">>]

InitDialog ==
  /\ handlers = <<>>
  /\ dialogs = <<>>
  /\ dlgEvents = 0

\* this.page.once('dialog', async (dialog) => { await dialog.accept(); })
DlgAcceptAlert ==
  /\ dlgEvents < MaxDialogEvents
  /\ handlers' = Append(handlers, "accept")
  /\ dlgEvents' = dlgEvents + 1
  /\ UNCHANGED dialogs

\* this.page.once('dialog', async (dialog) => { await dialog.dismiss(); })
DlgDismissAlert ==
  /\ dlgEvents < MaxDialogEvents
  /\ handlers' = Append(handlers, "dismiss")
  /\ dlgEvents' = dlgEvents + 1
  /\ UNCHANGED dialogs

\* The page shows a dialog: the 'dialog' event is emitted once; listeners
\* registered with once() are removed as they are called.
DlgDialogOpens ==
  /\ dlgEvents < MaxDialogEvents
  /\ dialogs' = Append(dialogs, CallsOn(handlers))
  /\ handlers' = <<>>
  /\ dlgEvents' = dlgEvents + 1

otherThanDialog == <<waitVars, retryVars, fixtureVars, sessionVars,
                     consoleVars, pollVars, animVars, loginVars, spinnerVars,
                     apiVars>>

NextDialog ==
  \/ DlgAcceptAlert /\ UNCHANGED otherThanDialog
  \/ DlgDismissAlert /\ UNCHANGED otherThanDialog
  \/ DlgDialogOpens /\ UNCHANGED otherThanDialog

InitSpecDialog ==
  /\ WaitIdle /\ RetryIdle /\ FixtureIdle
  /\ SessionIdle /\ ConsoleIdle /\ PollIdle /\ AnimIdle
  /\ LoginIdle /\ InitDialog /\ SpinnerIdle /\ ApiIdle

SpecDialog == InitSpecDialog /\ [][NextDialog]_vars /\ WF_vars(NextDialog)

\* The accept() / dismiss() calls BasePage's handlers made on dialog d.
HandlerCalls(d) ==
  {i \in 1..Len(dialogs[d]) : dialogs[d][i][1] \in {"accept", "dismiss"}}

\* C27: each dialog is handled at most once by BasePage's handlers: whatever
\* the sequence of acceptAlert / dismissAlert calls and dialog events, no
\* dialog gets both an accept and a dismiss, or two accepts or two dismisses.
C27_DialogHandledOnce ==
  \A d \in 1..Len(dialogs) : Cardinality(HandlerCalls(d)) <= 1
(***************************************************************************)
(* WaitUtil.waitForSpinnerToDisappear                                      *)
(***************************************************************************)

\* Failures of spinner.waitFor other than its timeout.
SpinnerFaults == {"none", "pageClosed", "badSelector"}

\* A catch block that throws the error on.
AfterWaitForErrorRethrow(err) == "threw"

\* catch { /* Spinner might not exist, which is fine */ }
AfterWaitForError(err) == "returned"

InitSpinner ==
  /\ spc = "start"
  /\ sclock = 0
  /\ sTimeout \in Instants
  /\ hiddenAt \in Instants \cup {Never}
  /\ sFault \in SpinnerFaults
  /\ slog = <<>>

\* const spinner = page.locator(spinnerSelector).first(): builds a locator,
\* nothing is looked up yet; then spinner.waitFor(...) starts inside the try.
SpLocate ==
  /\ spc = "start"
  /\ spc' = "waiting"
  /\ UNCHANGED <<sclock, sTimeout, hiddenAt, sFault, slog>>

\* waitFor resolves: the spinner is hidden (or absent) before the deadline.
\* A timeout of 0 means no deadline.
SpHidden ==
  /\ spc = "waiting"
  /\ hiddenAt # Never
  /\ sTimeout = 0 \/ hiddenAt <= sTimeout
  /\ sclock' = hiddenAt
  /\ slog' = Append(slog, <<"resolved", hiddenAt>>)
  /\ spc' = "returned"
  /\ UNCHANGED <<sTimeout, hiddenAt, sFault>>

\* waitFor rejects with a TimeoutError: the spinner is still visible.
SpTimeout ==
  /\ spc = "waiting"
  /\ sTimeout > 0
  /\ hiddenAt = Never \/ hiddenAt >= sTimeout
  /\ sclock' = sTimeout
  /\ slog' = Append(slog, <<"TimeoutError", sTimeout>>)
  /\ spc' = AfterWaitForError("TimeoutError")
  /\ UNCHANGED <<sTimeout, hiddenAt, sFault>>

\* waitFor rejects for another reason, at any moment of the wait.
SpFault ==
  /\ spc = "waiting"
  /\ sFault # "none"
  /\ slog' = Append(slog, <<sFault, sclock>>)
  /\ spc' = AfterWaitForError(sFault)
  /\ UNCHANGED <<sclock, sTimeout, hiddenAt, sFault>>

otherThanSpinner == <<waitVars, retryVars, fixtureVars, sessionVars,
                      consoleVars, pollVars, animVars, loginVars, dialogVars,
                      apiVars>>

NextSpinner ==
  \/ SpLocate /\ UNCHANGED otherThanSpinner
  \/ SpHidden /\ UNCHANGED otherThanSpinner
  \/ SpTimeout /\ UNCHANGED otherThanSpinner
  \/ SpFault /\ UNCHANGED otherThanSpinner

InitSpecSpinner ==
  /\ WaitIdle /\ RetryIdle /\ FixtureIdle
  /\ SessionIdle /\ ConsoleIdle /\ PollIdle /\ AnimIdle
  /\ LoginIdle /\ DialogIdle /\ InitSpinner /\ ApiIdle

SpecSpinner == InitSpecSpinner /\ [][NextSpinner]_vars /\ WF_vars(NextSpinner)

\* C28: waitForSpinnerToDisappear never throws: however the underlying wait
\* for the hidden state ends, including a timeout with the spinner still
\* visible, the call returns normally.
C28_SpinnerWaitNeverThrows ==
  /\ spc # "threw"
  /\ slog # <<>> => spc = "returned"

C28_Witness ==
  /\ spc = "returned"
  /\ hiddenAt = Never
  /\ sTimeout = POLL_INTERVAL
  /\ slog = <<<<"TimeoutError", POLL_INTERVAL>>>>

C28_WitnessFault ==
  /\ spc = "returned"
  /\ slog = <<<<"pageClosed", 0>>>>
(***************************************************************************)
(* WaitUtil.waitForMultipleAPICalls / waitForAPICall                       *)
(***************************************************************************)

\* Largest number of patterns in urlPatterns.
MaxPatterns == 2

\* Number of responses and timer expiries in a run.
MaxApiEvents == 4

\* The patterns '/api/users', /^\/api\/orders/ and '/api'.
UrlPatterns == {<<"string", "/api/users">>, <<"regex", "^/api/orders">>,
                <<"string", "/api">>}

Urls == {"/api/users", "/api/orders", "/v2/api/orders", "/static/app.js"}

\* typeof urlPattern === 'string' ? url.includes(urlPattern)
\*                                 : urlPattern.test(url)
MatchesUrl(u, pattern) ==
  CASE pattern = <<"string", "/api/users">> -> u = "/api/users"
    [] pattern = <<"string", "/api">> -> u # "/static/app.js"
    [] pattern = <<"regex", "^/api/orders">> -> u = "/api/orders"

PatternLists == UNION {[1..n -> UrlPatterns] : n \in 0..MaxPatterns}

\* A combinator that is fulfilled by the first fulfilled promise.
PromiseAny(ws) ==
  IF \E i \in DOMAIN ws : ws[i] = "resolved" THEN "returned"
  ELSE IF \E i \in DOMAIN ws : ws[i] = "pending" THEN "pending"
  ELSE IF ws = <<>> THEN "returned" ELSE "failed"

\* await Promise.all(promises): rejected as soon as one promise is rejected,
\* fulfilled when all are fulfilled.
PromiseAll(ws) ==
  IF \E i \in DOMAIN ws : ws[i] = "rejected" THEN "failed"
  ELSE IF \A i \in DOMAIN ws : ws[i] = "resolved" THEN "returned"
  ELSE "pending"

InitApi ==
  /\ mpc = "notCalled"
  /\ patterns \in PatternLists
  /\ waitState = <<>>
  /\ mlog = <<>>

\* urlPatterns.map(pattern => this.waitForAPICall(page, pattern, timeout)):
\* every waitForAPICall runs up to its page.waitForResponse call, so all the
\* waits are registered, with the same timeout, before anything is awaited.
ApiCall ==
  /\ mpc = "notCalled"
  /\ waitState' = [i \in DOMAIN patterns |-> "pending"]
  /\ mpc' = PromiseAll(waitState')
  /\ UNCHANGED <<patterns, mlog>>

\* The page receives a response: every pending wait whose predicate accepts
\* its URL resolves. Before the call nothing is listening.
ApiResponse ==
  /\ Len(mlog) < MaxApiEvents
  /\ mpc \in {"notCalled", "pending"}
  /\ \E u \in Urls :
       IF mpc = "notCalled"
         THEN /\ mlog' = Append(mlog, <<"early", u>>)
              /\ UNCHANGED <<waitState, mpc>>
         ELSE /\ mlog' = Append(mlog, <<"response", u>>)
              /\ waitState' =
                   [i \in DOMAIN waitState |->
                      IF waitState[i] = "pending" /\ MatchesUrl(u, patterns[i])
                        THEN "resolved" ELSE waitState[i]]
              /\ mpc' = PromiseAll(waitState')
  /\ UNCHANGED patterns

\* The timeout of one pending page.waitForResponse expires.
ApiTimeout ==
  /\ mpc = "pending"
  /\ \E i \in DOMAIN waitState :
       /\ waitState[i] = "pending"
       /\ waitState' = [waitState EXCEPT ![i] = "rejected"]
       /\ mlog' = Append(mlog, <<"timeout", i>>)
  /\ mpc' = PromiseAll(waitState')
  /\ UNCHANGED patterns

otherThanApi == <<waitVars, retryVars, fixtureVars, sessionVars, consoleVars,
                  pollVars, animVars, loginVars, dialogVars, spinnerVars>>

NextApi ==
  \/ ApiCall /\ UNCHANGED otherThanApi
  \/ ApiResponse /\ UNCHANGED otherThanApi
  \/ ApiTimeout /\ UNCHANGED otherThanApi

InitSpecApi ==
  /\ WaitIdle /\ RetryIdle /\ FixtureIdle
  /\ SessionIdle /\ ConsoleIdle /\ PollIdle /\ AnimIdle
  /\ LoginIdle /\ DialogIdle /\ SpinnerIdle /\ InitApi

\* The call is made and pending timers fire.
SpecApi ==
  InitSpecApi /\ [][NextApi]_vars /\ WF_vars(ApiCall) /\ WF_vars(ApiTimeout)

\* The responses received since the call that match pattern i.
MatchingResponses(i) ==
  {k \in 1..Len(mlog) :
     mlog[k][1] = "response" /\ MatchesUrl(mlog[k][2], patterns[i])}

TimeoutIdx == {k \in 1..Len(mlog) : mlog[k][1] = "timeout"}

\* C29: waitForMultipleAPICalls starts one response wait per pattern, all
\* under the same timeout, returns only after every pattern has been matched
\* by a response received since the call, and fails as soon as the wait of
\* any single pattern times out.
C29_AllPatternsAwaited ==
  mpc # "notCalled" =>
    /\ DOMAIN waitState = DOMAIN patterns
    /\ mpc = "returned" =>
         \A i \in DOMAIN patterns : MatchingResponses(i) # {}
    /\ \A i \in DOMAIN patterns :
         (waitState[i] = "resolved") = (MatchingResponses(i) # {})
    /\ (mpc = "failed") = (TimeoutIdx # {})
    /\ (mpc = "pending") =
         (TimeoutIdx = {} /\ \E i \in DOMAIN patterns : MatchingResponses(i) = {})

C29_Witness ==
  /\ mpc = "returned"
  /\ patterns = <<<<"string", "/api/users">>, <<"regex", "^/api/orders">>>>
  /\ mlog = <<<<"early", "/api/users">>, <<"response", "/api/orders">>,
              <<"response", "/static/app.js">>, <<"response", "/api/users">>>>

C29_WitnessTimeout ==
  /\ mpc = "failed"
  /\ patterns = <<<<"string", "/api/users">>, <<"regex", "^/api/orders">>>>
  /\ waitState = <<"resolved", "rejected">>

====
